---- MODULE Spec2Model ----
(***************************************************************************)
(* Model of scripts/generate_readme.py: the report generator `cli` and its *)
(* helpers compute_quality_of_inference, parse_name and get_latest_eval.   *)
(*                                                                         *)
(* Python strings are TLA+ strings (sequences of characters), so rsplit,   *)
(* replace, `in` and int() are computed character by character.            *)
(* Floats produced by round(x, 3) * 100. are kept as fixed-point integers  *)
(* in thousandths: 42.9 is 42900 and 100.0 is 100000.                      *)
(***************************************************************************)
EXTENDS Integers, Sequences, FiniteSets, TLC

VARIABLES
    args,            \* argparse namespace: dataset_names, mappings, upload_results
    pc,              \* position of cli() in its body
    error,           \* the exception that ended the run ("None" while none)
    di, mi, oi,      \* loop positions: dataset, mapping, optimized identifier
    results_dict,    \* the four columns of the table under construction
    reference_eval,  \* (record, link) returned for the reference identifier
    optimized_eval,  \* (record, link) returned for the current optimized identifier
    readme,          \* the document: headings and tables in append order
    store,           \* local directories seen after snapshot_download, by path
    fetched,         \* the <<dataset, mapping, identifier>> positions fetched so far
    warnings,        \* logger.warning calls, in order
    io,              \* file write and uploads attempted, in order, with outcome
    call,            \* helper under test: its name and arguments
    ret              \* helper under test: what the call produced

runvars == <<args, pc, error, di, mi, oi, results_dict, reference_eval,
             optimized_eval, readme, store, fetched, warnings, io>>
vars == <<args, pc, error, di, mi, oi, results_dict, reference_eval,
          optimized_eval, readme, store, fetched, warnings, io, call, ret>>

(***************************************************************************)
(* Bounds of the checked instances.                                        *)
(***************************************************************************)
MaxLen == 7       \* longest per-example result sequence given to the QoI helper
MaxFiles == 3     \* most files in a directory given to get_latest_eval
MaxFetches == 4   \* most identifiers (times datasets) named on a command line

(***************************************************************************)
(* Python str operations.                                                  *)
(***************************************************************************)
Last(seq) == seq[Len(seq)]

Min(a, b) == IF a <= b THEN a ELSE b

\* Index of the first occurrence of `sub` in `s` at or after 1, 0 when absent
\* (str.find, one-based).
Find(s, sub) ==
    LET hits == {i \in 1..(Len(s) - Len(sub) + 1) : SubSeq(s, i, i + Len(sub) - 1) = sub}
    IN IF hits = {} THEN 0 ELSE CHOOSE i \in hits : \A j \in hits : i <= j

\* `sub in s`
Contains(s, sub) == Find(s, sub) # 0

\* s.split(sep) and s.rsplit(sep) without maxsplit: the same list of segments.
RECURSIVE Split(_, _)
Split(s, sep) ==
    LET i == Find(s, sep)
    IN IF i = 0 THEN <<s>>
       ELSE <<SubSeq(s, 1, i - 1)>> \o Split(SubSeq(s, i + Len(sep), Len(s)), sep)

\* s.replace(old, new): every non-overlapping occurrence, left to right.
RECURSIVE Replace(_, _, _)
Replace(s, old, new) ==
    LET i == Find(s, old)
    IN IF i = 0 THEN s
       ELSE SubSeq(s, 1, i - 1) \o new \o Replace(SubSeq(s, i + Len(old), Len(s)), old, new)

\* os.path.join of three relative components.
PathJoin(a, b, c) == a \o "/" \o b \o "/" \o c

Digits == "0123456789"

IsDigit(c) == Contains(Digits, c)

DigitValue(c) == Find(Digits, c) - 1

RECURSIVE DigitsValue(_)
DigitsValue(s) ==
    IF Len(s) = 0 THEN 0
    ELSE 10 * DigitsValue(SubSeq(s, 1, Len(s) - 1)) + DigitValue(SubSeq(s, Len(s), Len(s)))

\* int(s): an optional sign and at least one decimal digit, else ValueError.
\* (Surrounding whitespace, which int() also accepts, does not occur in the
\* identifiers below.)
IntParse(s) ==
    LET signed == Len(s) > 0 /\ SubSeq(s, 1, 1) \in {"+", "-"}
        body == IF signed THEN SubSeq(s, 2, Len(s)) ELSE s
        ok == Len(body) > 0 /\ \A i \in 1..Len(body) : IsDigit(SubSeq(body, i, i))
    IN IF ~ok THEN [exc |-> "ValueError", value |-> 0]
       ELSE [exc |-> "None",
             value |-> IF signed /\ SubSeq(s, 1, 1) = "-"
                       THEN 0 - DigitsValue(body) ELSE DigitsValue(body)]

\* Characters of file names in code-point order; Ord keeps that order.
CodePointOrder == "-.0123456789ABCDEFGHIJKLMNOPQRSTUVWXYZ_abcdefghijklmnopqrstuvwxyz"

Ord(c) == Find(CodePointOrder, c)

\* a < b for Python strings: by code point, a proper prefix first.
RECURSIVE StrLess(_, _)
StrLess(a, b) ==
    IF Len(b) = 0 THEN FALSE
    ELSE IF Len(a) = 0 THEN TRUE
    ELSE IF SubSeq(a, 1, 1) # SubSeq(b, 1, 1)
         THEN Ord(SubSeq(a, 1, 1)) < Ord(SubSeq(b, 1, 1))
    ELSE StrLess(SubSeq(a, 2, Len(a)), SubSeq(b, 2, Len(b)))

\* sorted(names): ascending list of a set of strings.
RECURSIVE Sorted(_)
Sorted(names) ==
    IF names = {} THEN <<>>
    ELSE LET least == CHOOSE n \in names : \A o \in names \ {n} : StrLess(n, o)
         IN <<least>> \o Sorted(names \ {least})

(***************************************************************************)
(* Module constants.                                                       *)
(***************************************************************************)
QOI_KEY == "QoI"
FILE_SIZE_KEY == "File Size (MB)"
WER_KEY == "WER"
COMMIT_KEY == "Code Commit"

\* whisperkit._constants, imported: opaque repository ids.
EVALS_REPO_ID == "EVALS_REPO_ID"
MODEL_REPO_ID == "MODEL_REPO_ID"

REFERENCE_MODEL_FILE_SIZES ==
    [k \in {"WhisperKit/openai_whisper-large-v2",
            "WhisperKit/openai_whisper-large-v2_turbo",
            "WhisperKit/openai_whisper-large-v3",
            "WhisperKit/openai_whisper-large-v3_turbo",
            "WhisperKit/openai_whisper-small",
            "WhisperKit/openai_whisper-small.en",
            "WhisperKit/openai_whisper-base",
            "WhisperKit/openai_whisper-base.en",
            "WhisperKit/openai_whisper-tiny",
            "WhisperKit/openai_whisper-tiny.en",
            "whisper.cpp/openai_whisper-large-v2-q5_0",
            "whisper.cpp/openai_whisper-large-v3-q5_0",
            "whisper.cpp/openai_whisper-large-v3",
            "whisper.cpp/openai_whisper-large-v2",
            "WhisperOpenAIAPI/openai_whisper-large-v2",
            "WhisperKit/distil-whisper_distil-large-v3",
            "WhisperKit/distil-whisper_distil-large-v3_turbo"} |->
        CASE k \in {"WhisperKit/openai_whisper-small",
                    "WhisperKit/openai_whisper-small.en"} -> 483
          [] k \in {"WhisperKit/openai_whisper-base",
                    "WhisperKit/openai_whisper-base.en"} -> 145
          [] k \in {"WhisperKit/openai_whisper-tiny",
                    "WhisperKit/openai_whisper-tiny.en"} -> 66
          [] k \in {"whisper.cpp/openai_whisper-large-v2-q5_0",
                    "whisper.cpp/openai_whisper-large-v3-q5_0"} -> 1080
          [] k \in {"WhisperKit/distil-whisper_distil-large-v3",
                    "WhisperKit/distil-whisper_distil-large-v3_turbo"} -> 1510
          [] OTHER -> 3100]

DATASET_CAPTIONS == {"librispeech", "earnings22"}

REPO_URLS ==
    [r \in {"whisper.cpp", "WhisperKit"} |->
        IF r = "whisper.cpp" THEN "https://github.com/ggerganov/whisper.cpp"
        ELSE "https://github.com/argmaxinc/WhisperKit"]

(***************************************************************************)
(* compute_quality_of_inference                                            *)
(***************************************************************************)
\* round(num / den, 3) in thousandths, ties to even as Python rounds a tie
\* that is exact in binary.
Round3(num, den) ==
    LET q == (1000 * num) \div den
        r == (1000 * num) % den
    IN IF 2 * r < den THEN q
       ELSE IF 2 * r > den THEN q + 1
       ELSE IF q % 2 = 0 THEN q ELSE q + 1

\* The loop over zip(reference, optimized): the counters after pair `i`.
RECURSIVE QoILoop(_, _, _)
QoILoop(reference, optimized, i) ==
    IF i = 0 THEN [no_regression |-> 0, improved |-> 0, count |-> 0]
    ELSE LET prev == QoILoop(reference, optimized, i - 1)
             ref == reference[i]
             opt == optimized[i]
         IN [no_regression |-> prev.no_regression + (IF opt.wer <= ref.wer THEN 1 ELSE 0),
             improved |-> prev.improved + (IF opt.wer < ref.wer THEN 1 ELSE 0),
             count |-> prev.count + 1]

\* Mutant: scales to a percentage first and rounds second.
QoIResultScaleFirst(c) ==
    IF c.count = 0
    THEN [exc |-> "ZeroDivisionError", no_regression |-> 0, improved |-> 0]
    ELSE [exc |-> "None",
          no_regression |-> Round3(100 * c.no_regression, c.count),
          improved |-> Round3(100 * c.improved, c.count)]

\* Mutant: an empty input yields a default of zero instead of failing.
QoIResultDefault(c) ==
    IF c.count = 0
    THEN [exc |-> "None", no_regression |-> 0, improved |-> 0]
    ELSE [exc |-> "None",
          no_regression |-> Round3(c.no_regression, c.count) * 100,
          improved |-> Round3(c.improved, c.count) * 100]

\* The returned dict, in thousandths of a percent, or the exception raised.
QoIResult(c) ==
    IF c.count = 0
    THEN [exc |-> "ZeroDivisionError", no_regression |-> 0, improved |-> 0]
    ELSE [exc |-> "None",
          no_regression |-> Round3(c.no_regression, c.count) * 100,
          improved |-> Round3(c.improved, c.count) * 100]

\* Mutant: divides by the full length of the reference sequence instead of the
\* number of pairs formed.
QoIOverReferenceLength(reference, optimized) ==
    QoIResult([QoILoop(reference, optimized, Min(Len(reference), Len(optimized)))
                   EXCEPT !.count = Len(reference)])

compute_quality_of_inference(reference, optimized) ==
    QoIResult(QoILoop(reference, optimized, Min(Len(reference), Len(optimized))))

(***************************************************************************)
(* parse_name                                                              *)
(***************************************************************************)
DefaultCodeRepo == "WhisperKit"

\* Mutant: rsplit("/", 1), which cuts at the last slash only.
ParseTokensLastSlash(result) ==
    LET parts == Split(result, "/")
    IN IF Len(parts) <= 2 THEN parts
       ELSE <<SubSeq(result, 1, Len(result) - Len(Last(parts)) - 1), Last(parts)>>

\* result.rsplit("/")
ParseTokens(result) == Split(result, "/")

parse_name(result) ==
    LET tokens == ParseTokens(result)
    IN IF Len(tokens) = 1
       THEN [exc |-> "None", code_repo |-> DefaultCodeRepo, model |-> result]
       ELSE IF Len(tokens) = 2
       THEN [exc |-> "None", code_repo |-> tokens[1], model |-> tokens[2]]
       ELSE [exc |-> "ValueError", code_repo |-> "", model |-> ""]

(***************************************************************************)
(* get_latest_eval                                                         *)
(*                                                                         *)
(* A directory is what the local path holds once snapshot_download has     *)
(* returned or raised: download ("ok" or "raise"), exists, and files, a    *)
(* set of [name, json, record] with json FALSE for content json.load       *)
(* rejects.                                                                *)
(***************************************************************************)
RepoRelDir(code_repo, dataset_name, model_version) ==
    PathJoin(code_repo, model_version, dataset_name)

HubLink(repo_rel_dir) ==
    "https://hf.co/datasets/" \o EVALS_REPO_ID \o "/tree/main/" \o repo_rel_dir

NoRecord == [results |-> <<>>, code_commit_hash |-> "None",
             os_build_number |-> "", whisperkittools_commit_hash |-> ""]

FetchRaised(exc) == [exc |-> exc, record |-> NoRecord, link |-> ""]

\* Mutant: takes the first of the sorted names.
FirstResult(all_results) == all_results[1]

\* all_results[-1]
LatestResult(all_results) == Last(all_results)

get_latest_eval(code_repo, dataset_name, model_version, dir) ==
    LET repo_rel_dir == RepoRelDir(code_repo, dataset_name, model_version)
        all_results == Sorted({f.name : f \in dir.files})
    IN IF dir.download = "raise" THEN FetchRaised("HfHubHTTPError")
       ELSE IF ~dir.exists THEN FetchRaised("FileNotFoundError")
       ELSE IF Len(all_results) = 0 THEN FetchRaised("FileNotFoundError")
       ELSE LET latest_result == LatestResult(all_results)
                file == CHOOSE f \in dir.files : f.name = latest_result
            IN IF ~file.json THEN FetchRaised("JSONDecodeError")
               ELSE [exc |-> "None", record |-> file.record, link |-> HubLink(repo_rel_dir)]

get_model_link(model_version) ==
    "https://hf.co/" \o MODEL_REPO_ID \o "/tree/main/" \o model_version

\* The warnings verify_apples_to_apples logs, in order.
verify_apples_to_apples(reference_record, optimized_record) ==
    (IF reference_record.code_commit_hash # optimized_record.code_commit_hash
     THEN <<"different code commit">> ELSE <<>>)
    \o (IF reference_record.os_build_number # optimized_record.os_build_number
        THEN <<"different OS version">> ELSE <<>>)
    \o (IF reference_record.whisperkittools_commit_hash
               # optimized_record.whisperkittools_commit_hash
        THEN <<"different whisperkittools commit">> ELSE <<>>)

(***************************************************************************)
(* Pieces of cli()'s loop body.                                            *)
(***************************************************************************)
\* reference.rsplit('/')[-1] with the known prefixes removed, then the label.
RowKey(name, code_repo, model) ==
    LET key == Replace(Replace(Last(Split(name, "/")), "openai_whisper-", ""),
                       "distil-whisper_", "")
    IN IF code_repo = "WhisperKit"
       THEN "[" \o key \o "](" \o get_model_link(model) \o ") "
       ELSE key \o " (" \o code_repo \o ")"

\* d[k] = v on an insertion-ordered dict kept as a sequence of [key, value].
DictSet(d, k, v) ==
    IF \E i \in 1..Len(d) : d[i].key = k
    THEN [i \in 1..Len(d) |-> IF d[i].key = k THEN [key |-> k, value |-> v] ELSE d[i]]
    ELSE Append(d, [key |-> k, value |-> v])

DictKeys(d) == [i \in 1..Len(d) |-> d[i].key]

DictHas(d, k) == \E i \in 1..Len(d) : d[i].key = k

DictGet(d, k) == d[CHOOSE i \in 1..Len(d) : d[i].key = k].value

ColumnSet(rd, column, k, v) == [rd EXCEPT ![column] = DictSet(rd[column], k, v)]

\* The QoI cell of the reference row, 100. in thousandths.
ReferenceQoI == 100000

\* Mutant: a reference missing from the table gets "N/A" like an optimized one.
ReferenceFileSizeOrNA(reference) ==
    IF reference \in DOMAIN REFERENCE_MODEL_FILE_SIZES
    THEN [exc |-> "None", na |-> FALSE, mb |-> REFERENCE_MODEL_FILE_SIZES[reference]]
    ELSE [exc |-> "None", na |-> TRUE, mb |-> 0]

\* REFERENCE_MODEL_FILE_SIZES[reference]
ReferenceFileSize(reference) ==
    IF reference \in DOMAIN REFERENCE_MODEL_FILE_SIZES
    THEN [exc |-> "None", na |-> FALSE, mb |-> REFERENCE_MODEL_FILE_SIZES[reference]]
    ELSE [exc |-> "KeyError", na |-> TRUE, mb |-> 0]

\* The file size of an optimized identifier: table, else <N>MB suffix, else N/A.
OptimizedFileSize(optimized) ==
    IF optimized \in DOMAIN REFERENCE_MODEL_FILE_SIZES
    THEN [exc |-> "None", na |-> FALSE, mb |-> REFERENCE_MODEL_FILE_SIZES[optimized]]
    ELSE LET suffix == Last(Split(optimized, "_"))
         IN IF Contains(suffix, "MB")
            THEN LET n == IntParse(Replace(suffix, "MB", ""))
                 IN [exc |-> n.exc, na |-> FALSE, mb |-> n.value]
            ELSE [exc |-> "None", na |-> TRUE, mb |-> 0]

\* The commit cell: a link from the first 7 characters of the hash, or "N/A".
CommitCell(code_repo, commit_hash) ==
    IF commit_hash # "None"
    THEN IF code_repo \in DOMAIN REPO_URLS
         THEN [exc |-> "None",
               cell |-> "[Link](" \o REPO_URLS[code_repo] \o "/commit/"
                        \o SubSeq(commit_hash, 1, Min(7, Len(commit_hash))) \o ")"]
         ELSE [exc |-> "KeyError", cell |-> ""]
    ELSE [exc |-> "None", cell |-> "N/A"]

\* The WER cell; the number is the external metric's, kept opaque.
WerCell(link) == "[wer](" \o link \o ")"

\* wer_metric.compute is external: on no examples it may raise or return.
WerMayRaise(results) == IF Len(results) = 0 THEN BOOLEAN ELSE {FALSE}

\* Row labels of DataFrame.from_dict(results_dict): the inner keys in first-seen
\* order, column by column.
RECURSIVE UnionOrder(_, _)
UnionOrder(seen, keys) ==
    IF Len(keys) = 0 THEN seen
    ELSE UnionOrder(IF \E i \in 1..Len(seen) : seen[i] = Head(keys)
                    THEN seen ELSE Append(seen, Head(keys)), Tail(keys))

RowLabels(rd) ==
    UnionOrder(UnionOrder(UnionOrder(DictKeys(rd[WER_KEY]), DictKeys(rd[QOI_KEY])),
                          DictKeys(rd[FILE_SIZE_KEY])), DictKeys(rd[COMMIT_KEY]))

(***************************************************************************)
(* State of cli() before it starts: the helper specifications keep it so.  *)
(***************************************************************************)
NoError == [exc |-> "None", at |-> ""]

NoEval == [record |-> NoRecord, link |-> ""]

EmptyColumns == [c \in {WER_KEY, QOI_KEY, FILE_SIZE_KEY, COMMIT_KEY} |-> <<>>]

RunIdle ==
    /\ args = [dataset_names |-> <<>>, mappings |-> <<>>, has_mappings |-> FALSE,
               upload_results |-> FALSE]
    /\ pc = "idle"
    /\ error = NoError
    /\ di = 0 /\ mi = 0 /\ oi = 0
    /\ results_dict = EmptyColumns
    /\ reference_eval = NoEval
    /\ optimized_eval = NoEval
    /\ readme = <<>>
    /\ store = {}
    /\ fetched = {}
    /\ warnings = <<>>
    /\ io = <<>>

(***************************************************************************)
(* Inputs of the report run: command lines and directory contents.         *)
(***************************************************************************)
RECURSIVE SeqsUpTo(_, _)
SeqsUpTo(S, n) ==
    IF n = 0 THEN {<<>>}
    ELSE LET shorter == SeqsUpTo(S, n - 1)
         IN shorter \cup {Append(s, x) : s \in {t \in shorter : Len(t) = n - 1}, x \in S}

MappingPool ==
    {"WhisperKit/openai_whisper-tiny:openai_whisper-tiny_30MB,openai_whisper-base",
     "whisper.cpp/openai_whisper-large-v2:whisper.cpp/distil-whisper_large-v2",
     "openai_whisper-tiny:openai_whisper-tiny_30MB",
     "WhisperOpenAIAPI/openai_whisper-large-v2:WhisperKit/openai_whisper-tiny",
     "WhisperKit/openai_whisper-tiny:openai_whisper-tiny_1.5MB,WhisperKit/openai_whisper-tiny",
     "WhisperKit/openai_whisper-tiny:a/b/c,openai_whisper-base",
     "a/b/c:openai_whisper-base",
     "WhisperKit/openai_whisper-tiny"}

DatasetLists == {<<>>, <<"librispeech">>, <<"librispeech", "earnings22">>, <<"commonvoice">>}

CountChar(s, c) == Cardinality({i \in 1..Len(s) : SubSeq(s, i, i) = c})

\* Identifiers a mapping string names.
IdentifierCount(mapping) == 1 + CountChar(mapping, ":") + CountChar(mapping, ",")

RECURSIVE IdentifierTotal(_)
IdentifierTotal(mappings) ==
    IF Len(mappings) = 0 THEN 0
    ELSE IdentifierCount(Head(mappings)) + IdentifierTotal(Tail(mappings))

\* Lists of mappings naming at most `budget` identifiers in all.
RECURSIVE MappingLists(_)
MappingLists(budget) ==
    {<<>>} \cup UNION {{<<m>> \o rest : rest \in MappingLists(budget - IdentifierCount(m))} :
                       m \in {x \in MappingPool : IdentifierCount(x) <= budget}}

\* Command lines: --reference-to-optimized-mapping absent leaves None
\* (has_mappings FALSE), given it is a non-empty list.
ArgsPool ==
    {a \in [dataset_names : DatasetLists,
            mappings : MappingLists(MaxFetches),
            has_mappings : BOOLEAN,
            upload_results : BOOLEAN] :
        /\ a.has_mappings <=> (a.mappings # <<>>)
        /\ Len(a.dataset_names) * IdentifierTotal(a.mappings) <= MaxFetches}

RecA == [results |-> <<[wer |-> 1], [wer |-> 1]>>, code_commit_hash |-> "0123456789abcdef",
         os_build_number |-> "23E224", whisperkittools_commit_hash |-> "wkt1"]
RecB == [results |-> <<[wer |-> 0], [wer |-> 2]>>, code_commit_hash |-> "None",
         os_build_number |-> "23E224", whisperkittools_commit_hash |-> "wkt1"]
RecC == [results |-> <<>>, code_commit_hash |-> "0123456789abcdef",
         os_build_number |-> "23E224", whisperkittools_commit_hash |-> "wkt1"]
RecD == [results |-> <<[wer |-> 2]>>, code_commit_hash |-> "fedcba9",
         os_build_number |-> "23F79", whisperkittools_commit_hash |-> "wkt2"]

File(name, record) == [name |-> name, json |-> TRUE, record |-> record]

FetchPool ==
    {[download |-> "raise", exists |-> FALSE, files |-> {}],
     [download |-> "ok", exists |-> TRUE, files |-> {}],
     [download |-> "ok", exists |-> TRUE, files |-> {File("2024-03-01.json", RecA)}],
     [download |-> "ok", exists |-> TRUE,
      files |-> {File("2024-02-28.json", RecA), File("2024-03-01.json", RecB)}],
     [download |-> "ok", exists |-> TRUE, files |-> {File("2024-03-01.json", RecC)}],
     [download |-> "ok", exists |-> TRUE, files |-> {File("2024-03-01.json", RecD)}]}

(***************************************************************************)
(* cli()                                                                   *)
(***************************************************************************)
Init ==
    /\ args \in ArgsPool
    /\ pc = "dataset"
    /\ error = NoError
    /\ di = 1 /\ mi = 0 /\ oi = 0
    /\ results_dict = EmptyColumns
    /\ reference_eval = NoEval
    /\ optimized_eval = NoEval
    /\ readme = <<>>
    /\ store = {}
    /\ fetched = {}
    /\ warnings = <<>>
    /\ io = <<>>
    /\ call = [fn |-> "cli"]
    /\ ret = [done |-> FALSE]

Abort(exc, at) == pc' = "aborted" /\ error' = [exc |-> exc, at |-> at]

DatasetName == args.dataset_names[di]
Mapping == args.mappings[mi]
MappingParts == Split(Mapping, ":")
Reference == MappingParts[1]
OptimizedList == Split(MappingParts[2], ",")
Optimized == OptimizedList[oi]

Heading(dataset_name) ==
    [kind |-> "heading", dataset |-> dataset_name, mapping |-> "",
     rows |-> <<>>, cells |-> EmptyColumns]

Table(dataset_name, mapping, rd) ==
    [kind |-> "table", dataset |-> dataset_name, mapping |-> mapping,
     rows |-> RowLabels(rd), cells |-> rd]

\* The directory a fetch of `path` finds: the one seen before in this run,
\* else any of FetchPool.
DirChoices(path) ==
    IF \E e \in store : e.path = path
    THEN {e.dir : e \in {x \in store : x.path = path}}
    ELSE FetchPool

\* Mutant: the except clause re-raises.
FetchErrorRaises(exc) == "raise"

\* except Exception: log a warning and continue.
OnFetchError(exc) == "continue"

\* Mutant: publishes whatever the flag says.
PublishAlways(a) == TRUE

\* if args.upload_results
ShouldPublish(a) == a.upload_results

\* for dataset_name in args.dataset_names: the heading, then the mapping loop.
DatasetLoop ==
    /\ pc = "dataset"
    /\ IF di > Len(args.dataset_names)
       THEN pc' = "log" /\ UNCHANGED <<error, readme, mi>>
       ELSE IF DatasetName \notin DATASET_CAPTIONS
       THEN Abort("KeyError", "DATASET_CAPTIONS") /\ UNCHANGED <<readme, mi>>
       ELSE /\ readme' = Append(readme, Heading(DatasetName))
            /\ IF ~args.has_mappings
               THEN Abort("TypeError", "reference_to_optimized_mapping") /\ UNCHANGED mi
               ELSE pc' = "mapping" /\ mi' = 1 /\ UNCHANGED error
    /\ UNCHANGED <<args, di, oi, results_dict, reference_eval, optimized_eval,
                   store, fetched, warnings, io, call, ret>>

\* for mapping in ...: split the mapping, reset results_dict, parse the reference.
MappingLoop ==
    /\ pc = "mapping"
    /\ IF mi > Len(args.mappings)
       THEN pc' = "dataset" /\ di' = di + 1 /\ UNCHANGED <<error, results_dict>>
       ELSE IF Len(MappingParts) # 2
       THEN /\ Abort("ValueError", "mapping.split")
            /\ results_dict' = EmptyColumns
            /\ UNCHANGED di
       ELSE /\ results_dict' = EmptyColumns
            /\ UNCHANGED di
            /\ IF parse_name(Reference).exc # "None"
               THEN Abort(parse_name(Reference).exc, "parse_name")
               ELSE pc' = "fetch_ref" /\ UNCHANGED error
    /\ UNCHANGED <<args, mi, oi, reference_eval, optimized_eval, readme,
                   store, fetched, warnings, io, call, ret>>

\* get_latest_eval for the reference: any exception ends the run.
FetchReference ==
    /\ pc = "fetch_ref"
    /\ LET name == parse_name(Reference)
           path == RepoRelDir(name.code_repo, DatasetName, name.model)
       IN \E dir \in DirChoices(path) :
            LET r == get_latest_eval(name.code_repo, DatasetName, name.model, dir)
            IN /\ store' = store \cup {[path |-> path, dir |-> dir]}
               /\ fetched' = fetched \cup {<<di, mi, 0>>}
               /\ IF r.exc # "None"
                  THEN Abort(r.exc, "get_latest_eval") /\ UNCHANGED reference_eval
                  ELSE /\ reference_eval' = [record |-> r.record, link |-> r.link]
                       /\ pc' = "fill_ref"
                       /\ UNCHANGED error
    /\ UNCHANGED <<args, di, mi, oi, results_dict, optimized_eval, readme,
                   warnings, io, call, ret>>

\* The reference row: QoI, file size, WER, commit (lines 189 to 213).
FillReference ==
    /\ pc = "fill_ref"
    /\ LET name == parse_name(Reference)
           reference_key == RowKey(Reference, name.code_repo, name.model)
           rd1 == ColumnSet(results_dict, QOI_KEY, reference_key, ReferenceQoI)
           size == ReferenceFileSize(Reference)
           rd2 == ColumnSet(rd1, FILE_SIZE_KEY, reference_key,
                            [na |-> size.na, mb |-> size.mb])
           rd3 == ColumnSet(rd2, WER_KEY, reference_key, WerCell(reference_eval.link))
           commit == CommitCell(name.code_repo, reference_eval.record.code_commit_hash)
           rd4 == ColumnSet(rd3, COMMIT_KEY, reference_key, commit.cell)
       IN \E wer_raises \in WerMayRaise(reference_eval.record.results) :
            IF size.exc # "None"
            THEN /\ results_dict' = rd1
                 /\ Abort(size.exc, "REFERENCE_MODEL_FILE_SIZES")
                 /\ UNCHANGED oi
            ELSE IF wer_raises
            THEN /\ results_dict' = rd2
                 /\ Abort("ZeroDivisionError", "compute_average_wer")
                 /\ UNCHANGED oi
            ELSE IF commit.exc # "None"
            THEN /\ results_dict' = rd3
                 /\ Abort(commit.exc, "REPO_URLS")
                 /\ UNCHANGED oi
            ELSE /\ results_dict' = rd4
                 /\ oi' = 1
                 /\ pc' = "optimized"
                 /\ UNCHANGED error
    /\ UNCHANGED <<args, di, mi, reference_eval, optimized_eval, readme,
                   store, fetched, warnings, io, call, ret>>

\* for optimized in optimized_csv.split(","): parse_name, outside the try.
ParseOptimized ==
    /\ pc = "optimized"
    /\ IF oi > Len(OptimizedList)
       THEN pc' = "table" /\ UNCHANGED error
       ELSE IF parse_name(Optimized).exc # "None"
       THEN Abort(parse_name(Optimized).exc, "parse_name")
       ELSE pc' = "fetch_opt" /\ UNCHANGED error
    /\ UNCHANGED <<args, di, mi, oi, results_dict, reference_eval, optimized_eval,
                   readme, store, fetched, warnings, io, call, ret>>

\* try: get_latest_eval for the optimized identifier; except: warn and continue.
FetchOptimized ==
    /\ pc = "fetch_opt"
    /\ LET name == parse_name(Optimized)
           path == RepoRelDir(name.code_repo, DatasetName, name.model)
       IN \E dir \in DirChoices(path) :
            LET r == get_latest_eval(name.code_repo, DatasetName, name.model, dir)
            IN /\ store' = store \cup {[path |-> path, dir |-> dir]}
               /\ fetched' = fetched \cup {<<di, mi, oi>>}
               /\ IF r.exc # "None"
                  THEN IF OnFetchError(r.exc) = "continue"
                       THEN /\ warnings' = Append(warnings,
                                   [msg |-> "Could not fetch eval JSON", name |-> Optimized])
                            /\ oi' = oi + 1
                            /\ pc' = "optimized"
                            /\ UNCHANGED <<error, optimized_eval>>
                       ELSE /\ Abort(r.exc, "get_latest_eval")
                            /\ UNCHANGED <<warnings, oi, optimized_eval>>
                  ELSE /\ optimized_eval' = [record |-> r.record, link |-> r.link]
                       /\ pc' = "fill_opt"
                       /\ UNCHANGED <<error, warnings, oi>>
    /\ UNCHANGED <<args, di, mi, results_dict, reference_eval, readme, io, call, ret>>

\* The optimized row: label, comparability warnings, QoI, WER, commit, file
\* size (lines 225 to 263).
FillOptimized ==
    /\ pc = "fill_opt"
    /\ LET name == parse_name(Optimized)
           optimized_key == RowKey(Optimized, name.code_repo, name.model)
           notes == verify_apples_to_apples(reference_eval.record, optimized_eval.record)
           qoi == compute_quality_of_inference(reference_eval.record.results,
                                               optimized_eval.record.results)
           rd1 == ColumnSet(results_dict, QOI_KEY, optimized_key, qoi.no_regression)
           rd2 == ColumnSet(rd1, WER_KEY, optimized_key, WerCell(optimized_eval.link))
           commit == CommitCell(name.code_repo, optimized_eval.record.code_commit_hash)
           rd3 == ColumnSet(rd2, COMMIT_KEY, optimized_key, commit.cell)
           size == OptimizedFileSize(Optimized)
           rd4 == ColumnSet(rd3, FILE_SIZE_KEY, optimized_key,
                            [na |-> size.na, mb |-> size.mb])
       IN /\ warnings' = warnings \o [i \in 1..Len(notes) |->
                                         [msg |-> notes[i], name |-> Optimized]]
          /\ \E wer_raises \in WerMayRaise(optimized_eval.record.results) :
               IF qoi.exc # "None"
               THEN /\ UNCHANGED results_dict
                    /\ Abort(qoi.exc, "compute_quality_of_inference")
                    /\ UNCHANGED oi
               ELSE IF wer_raises
               THEN /\ results_dict' = rd1
                    /\ Abort("ZeroDivisionError", "compute_average_wer")
                    /\ UNCHANGED oi
               ELSE IF commit.exc # "None"
               THEN /\ results_dict' = rd2
                    /\ Abort(commit.exc, "REPO_URLS")
                    /\ UNCHANGED oi
               ELSE IF size.exc # "None"
               THEN /\ results_dict' = rd3
                    /\ Abort(size.exc, "int")
                    /\ UNCHANGED oi
               ELSE /\ results_dict' = rd4
                    /\ oi' = oi + 1
                    /\ pc' = "optimized"
                    /\ UNCHANGED error
    /\ UNCHANGED <<args, di, mi, reference_eval, optimized_eval, readme,
                   store, fetched, io, call, ret>>

\* readme += the markdown table of results_dict; next mapping.
EmitTable ==
    /\ pc = "table"
    /\ readme' = Append(readme, Table(DatasetName, Mapping, results_dict))
    /\ mi' = mi + 1
    /\ pc' = "mapping"
    /\ UNCHANGED <<args, error, di, oi, results_dict, reference_eval, optimized_eval,
                   store, fetched, warnings, io, call, ret>>

\* logger.info of the document, then the upload flag.
LogReadme ==
    /\ pc = "log"
    /\ pc' = IF ShouldPublish(args) THEN "write" ELSE "done"
    /\ UNCHANGED <<args, error, di, mi, oi, results_dict, reference_eval,
                   optimized_eval, readme, store, fetched, warnings, io, call, ret>>

\* One publishing step: attempted once, its failure ends the run.
PublishStep(at, op, exc, next) ==
    /\ pc = at
    /\ \E ok \in BOOLEAN :
         /\ io' = Append(io, [op |-> op, ok |-> ok])
         /\ IF ok THEN pc' = next /\ UNCHANGED error ELSE Abort(exc, op)
    /\ UNCHANGED <<args, di, mi, oi, results_dict, reference_eval, optimized_eval,
                   readme, store, fetched, warnings, call, ret>>

WriteTempFile == PublishStep("write", "write", "OSError", "upload_dataset")

UploadDataset == PublishStep("upload_dataset", "upload_dataset", "HfHubHTTPError", "upload_model")

UploadModel == PublishStep("upload_model", "upload_model", "HfHubHTTPError", "done")

Next ==
    \/ DatasetLoop
    \/ MappingLoop
    \/ FetchReference
    \/ FillReference
    \/ ParseOptimized
    \/ FetchOptimized
    \/ FillOptimized
    \/ EmitTable
    \/ LogReadme
    \/ WriteTempFile
    \/ UploadDataset
    \/ UploadModel

Spec == Init /\ [][Next]_vars

(***************************************************************************)
(* Specification of compute_quality_of_inference on bounded inputs.        *)
(***************************************************************************)
\* Per-example records: two metric values give every outcome of <= and < at
\* every position.
Examples == {[wer |-> w] : w \in {0, 1}}

InitQoI ==
    /\ RunIdle
    /\ \E reference \in SeqsUpTo(Examples, MaxLen), optimized \in SeqsUpTo(Examples, MaxLen) :
          call = [fn |-> "compute_quality_of_inference",
                  reference |-> reference, optimized |-> optimized]
    /\ ret = [done |-> FALSE]

CallQoI ==
    /\ ~ret.done
    /\ ret' = [done |-> TRUE,
               out |-> compute_quality_of_inference(call.reference, call.optimized)]
    /\ UNCHANGED <<call, runvars>>

SpecQoI == InitQoI /\ [][CallQoI]_vars

(***************************************************************************)
(* Specification of get_latest_eval on bounded directories.                *)
(***************************************************************************)
FilenamePool ==
    {"9.json", "10.json", "2024-02-28.json", "2024-03-01.json", "B.json", "a.json", "a.jsonl"}

\* The content of a file: its record carries the file's own name.
RecordOf(name) ==
    [results |-> <<[wer |-> 1]>>, code_commit_hash |-> name,
     os_build_number |-> "23E224", whisperkittools_commit_hash |-> "wkt1"]

\* Directories of at most MaxFiles files, each parseable or not.
DirectoryPool ==
    {[download |-> "raise", exists |-> FALSE, files |-> {}],
     [download |-> "ok", exists |-> FALSE, files |-> {}]}
    \cup {[download |-> "ok", exists |-> TRUE,
           files |-> {[name |-> n, json |-> n \notin bad, record |-> RecordOf(n)] : n \in names}] :
          names \in {ns \in SUBSET FilenamePool : Cardinality(ns) <= MaxFiles},
          bad \in SUBSET FilenamePool}

InitLatest ==
    /\ RunIdle
    /\ \E dir \in DirectoryPool :
          call = [fn |-> "get_latest_eval", code_repo |-> "WhisperKit",
                  dataset_name |-> "librispeech", model_version |-> "openai_whisper-tiny",
                  dir |-> dir]
    /\ ret = [done |-> FALSE]

CallLatest ==
    /\ ~ret.done
    /\ ret' = [done |-> TRUE,
               out |-> get_latest_eval(call.code_repo, call.dataset_name,
                                       call.model_version, call.dir)]
    /\ UNCHANGED <<call, runvars>>

SpecLatest == InitLatest /\ [][CallLatest]_vars

\* Non-empty sequences of equal length, the case the QoI contract is stated for.
QoIPaired == ret.done /\ Len(call.reference) = Len(call.optimized) /\ Len(call.reference) > 0

\* Positions whose optimized metric is <= (resp. <) the reference metric.
NoRegressionAt(reference, optimized) ==
    {i \in 1..Len(reference) : optimized[i].wer <= reference[i].wer}

ImprovedAt(reference, optimized) ==
    {i \in 1..Len(reference) : optimized[i].wer < reference[i].wer}

\* v (thousandths of a percent) is a nearest multiple of 0.1 percent to 100*k/n.
NearestTenth(v, k, n) ==
    \E r \in {(1000 * k) \div n, ((1000 * k) \div n) + 1} :
        /\ v = 100 * r
        /\ 2 * (1000 * k - r * n) <= n
        /\ 2 * (r * n - 1000 * k) <= n

\* C6: on non-empty equal-length inputs the helper returns
\* no_regression = round(k/n, 3) * 100 and improved = round(j/n, 3) * 100 (the
\* fraction rounded to 3 decimals, then scaled), so all-<= gives 100.0,
\* all-> gives 0.0 and 0.0, and improved <= no_regression.
C6_QoIRounding ==
    QoIPaired =>
        LET n == Len(call.reference)
            k == Cardinality(NoRegressionAt(call.reference, call.optimized))
            j == Cardinality(ImprovedAt(call.reference, call.optimized))
        IN /\ ret.out.exc = "None"
           /\ NearestTenth(ret.out.no_regression, k, n)
           /\ NearestTenth(ret.out.improved, j, n)
           /\ (k = n => ret.out.no_regression = 100000)
           /\ (k = 0 => ret.out.no_regression = 0 /\ ret.out.improved = 0)
           /\ ret.out.improved <= ret.out.no_regression

\* C6 witness: 3 of 7 pairs do not regress and 1 of 7 improves: 42.9 (not
\* 42.86) and 14.3.
C6_Witness ==
    /\ QoIPaired
    /\ Len(call.reference) = 7
    /\ Cardinality(NoRegressionAt(call.reference, call.optimized)) = 3
    /\ ret.out.no_regression = 42900
    /\ ret.out.improved = 14300

(***************************************************************************)
(* get_latest_eval: the latest file.                                       *)
(***************************************************************************)
\* a sorts strictly before b: they agree on a prefix after which a ends or
\* carries the smaller character.
LexBefore(a, b) ==
    \E k \in 0..Min(Len(a), Len(b)) :
        /\ SubSeq(a, 1, k) = SubSeq(b, 1, k)
        /\ \/ k = Len(a) /\ k < Len(b)
           \/ /\ k < Len(a) /\ k < Len(b)
              /\ Ord(SubSeq(a, k + 1, k + 1)) < Ord(SubSeq(b, k + 1, k + 1))

ListedNames == {f.name : f \in call.dir.files}

\* C8: with the directory present after the fetch, get_latest_eval returns
\* the parsed content of the lexicographically greatest file name and of no
\* other file (nothing when that file does not parse), and fails with
\* FileNotFoundError when the directory is empty.
C8_LatestIsGreatest ==
    (ret.done /\ call.dir.download = "ok" /\ call.dir.exists) =>
        IF ListedNames = {}
        THEN ret.out.exc = "FileNotFoundError"
        ELSE \E f \in call.dir.files :
                /\ \A n \in ListedNames \ {f.name} : LexBefore(n, f.name)
                /\ IF f.json
                   THEN ret.out.exc = "None" /\ ret.out.record = f.record
                   ELSE ret.out.exc = "JSONDecodeError"

\* C8 witness: "9.json" is returned although "10.json" is also present.
C8_Witness ==
    /\ ret.done
    /\ {"9.json", "10.json", "2024-03-01.json"} \subseteq ListedNames
    /\ ret.out.exc = "None"
    /\ ret.out.record = RecordOf("9.json")

(***************************************************************************)
(* The report run.                                                         *)
(***************************************************************************)
Tables == {i \in 1..Len(readme) : readme[i].kind = "table"}

ReferenceOf(mapping) == Split(mapping, ":")[1]

OptimizedOf(mapping) == Split(Split(mapping, ":")[2], ",")

\* The row label an identifier gets.
LabelOf(name) == RowKey(name, parse_name(name).code_repo, parse_name(name).model)

\* C1: in every emitted table the reference row's QoI cell is exactly 100.
C1_ReferenceQoIIs100 ==
    \A i \in Tables :
        DictGet(readme[i].cells[QOI_KEY], LabelOf(ReferenceOf(readme[i].mapping)))
            = ReferenceQoI

\* The directory this run saw for an identifier of a dataset.
SeenDir(name, dataset_name) ==
    LET path == RepoRelDir(parse_name(name).code_repo, dataset_name, parse_name(name).model)
    IN (CHOOSE e \in store : e.path = path).dir

FetchSucceeds(name, dataset_name) ==
    LET n == parse_name(name)
    IN get_latest_eval(n.code_repo, dataset_name, n.model, SeenDir(name, dataset_name)).exc
           = "None"

DistinctLabels(mapping) ==
    LET names == <<ReferenceOf(mapping)>> \o OptimizedOf(mapping)
    IN \A i, j \in 1..Len(names) : i # j => LabelOf(names[i]) # LabelOf(names[j])

\* The rows a table of pairwise distinct labels is to hold.
ExpectedRows(mapping, dataset_name) ==
    LET Fetched(name) == FetchSucceeds(name, dataset_name)
        kept == SelectSeq(OptimizedOf(mapping), Fetched)
    IN <<LabelOf(ReferenceOf(mapping))>> \o [i \in 1..Len(kept) |-> LabelOf(kept[i])]

C2_TableRows ==
    \A i \in Tables :
        DistinctLabels(readme[i].mapping) =>
            /\ readme[i].rows = ExpectedRows(readme[i].mapping, readme[i].dataset)
            /\ \A c \in DOMAIN readme[i].cells :
                  DictKeys(readme[i].cells[c]) = readme[i].rows

\* A step in which the fetch of the current optimized identifier raises.
OptimizedFetchRaises ==
    /\ pc = "fetch_opt"
    /\ \E e \in store' :
          /\ e.path = RepoRelDir(parse_name(Optimized).code_repo, DatasetName,
                                 parse_name(Optimized).model)
          /\ get_latest_eval(parse_name(Optimized).code_repo, DatasetName,
                             parse_name(Optimized).model, e.dir).exc # "None"

C2_SkipStep ==
    OptimizedFetchRaises =>
        /\ warnings' = Append(warnings, [msg |-> "Could not fetch eval JSON", name |-> Optimized])
        /\ results_dict' = results_dict
        /\ readme' = readme
        /\ error' = NoError
        /\ oi' = oi + 1
        /\ pc' = "optimized"

\* C2: when the fetch of an optimized identifier raises, a warning is logged,
\* no cell is written, the loop goes on to the next identifier without
\* ending the run, and a table of pairwise distinct labels holds the
\* reference row followed by exactly the rows of the identifiers whose fetch
\* succeeded, in input order.
C2_FetchFailureSkipsRow == [](C2_TableRows) /\ [][C2_SkipStep]_vars

\* C2 witness: of two optimized identifiers the first could not be fetched,
\* and the emitted table holds the reference row and the second one's row.
C2_Witness ==
    \E i \in Tables :
        LET opts == OptimizedOf(readme[i].mapping)
        IN /\ DistinctLabels(readme[i].mapping)
           /\ Len(opts) = 2
           /\ ~FetchSucceeds(opts[1], readme[i].dataset)
           /\ readme[i].rows = <<LabelOf(ReferenceOf(readme[i].mapping)), LabelOf(opts[2])>>
           /\ \E w \in 1..Len(warnings) : warnings[w].name = opts[1]

\* Position of a (dataset, mapping) pair in the order the loops visit them.
Visit(d, m) == (d - 1) * Len(args.mappings) + m

\* C3: a mapping whose reference identifier, as written, is no key of
\* REFERENCE_MODEL_FILE_SIZES stops the run: no table for it or for anything
\* after it, none of its optimized identifiers fetched, nothing fetched
\* after it, no upload, and the run never completes.
C3_MissingReferenceSizeIsFatal ==
    \A d \in 1..Len(args.dataset_names), m \in 1..Len(args.mappings) :
        ReferenceOf(args.mappings[m]) \notin DOMAIN REFERENCE_MODEL_FILE_SIZES =>
            /\ Cardinality(Tables) < Visit(d, m)
            /\ \A f \in fetched :
                  /\ Visit(f[1], f[2]) <= Visit(d, m)
                  /\ Visit(f[1], f[2]) = Visit(d, m) => f[3] = 0
            /\ io = <<>>
            /\ pc \notin {"log", "write", "upload_dataset", "upload_model", "done"}

\* C3 witness: the second mapping's reference is missing from the table; the
\* run ended there with the first mapping's table alone in the document.
C3_Witness ==
    /\ pc = "aborted"
    /\ error = [exc |-> "KeyError", at |-> "REFERENCE_MODEL_FILE_SIZES"]
    /\ mi = 2
    /\ Cardinality(Tables) = 1
    /\ <<1, 2, 0>> \in fetched

\* The file size the contract gives an optimized identifier: the table's
\* value, else N of a trailing _<N>MB, else N/A.
SpecifiedFileSize(optimized) ==
    LET suffix == Last(Split(optimized, "_"))
        number == SubSeq(suffix, 1, Len(suffix) - 2)
    IN IF optimized \in DOMAIN REFERENCE_MODEL_FILE_SIZES
       THEN [exc |-> "None", na |-> FALSE, mb |-> REFERENCE_MODEL_FILE_SIZES[optimized]]
       ELSE IF /\ Len(suffix) > 2
               /\ SubSeq(suffix, Len(suffix) - 1, Len(suffix)) = "MB"
               /\ \A i \in 1..Len(number) : IsDigit(SubSeq(number, i, i))
       THEN [exc |-> "None", na |-> FALSE, mb |-> DigitsValue(number)]
       ELSE [exc |-> "None", na |-> TRUE, mb |-> 0]

\* The record this run fetched for an identifier of a dataset.
FetchedRecord(name, dataset_name) ==
    LET n == parse_name(name)
    IN get_latest_eval(n.code_repo, dataset_name, n.model, SeenDir(name, dataset_name)).record

\* The identifiers behind the rows of a table: the reference and the
\* optimized identifiers that were fetched.
RowNames(t) ==
    LET Fetched(name) == FetchSucceeds(name, t.dataset)
    IN <<ReferenceOf(t.mapping)>> \o SelectSeq(OptimizedOf(t.mapping), Fetched)

\* C4: for every optimized identifier whose record was fetched, file-size
\* resolution never fails, so the run never ends in it, and the size cell is
\* the table value, else N of _<N>MB, else N/A.
C4_FileSizeNeverFails ==
    /\ pc = "aborted" => error.at # "int"
    /\ \A i \in Tables :
          DistinctLabels(readme[i].mapping) =>
              \A r \in 2..Len(RowNames(readme[i])) :
                  LET name == RowNames(readme[i])[r]
                      size == SpecifiedFileSize(name)
                  IN DictGet(readme[i].cells[FILE_SIZE_KEY], LabelOf(name))
                         = [na |-> size.na, mb |-> size.mb]

\* C5: for every fetched record, reference or optimized, building the commit
\* cell never fails, so the run never ends in it, and the cell is "N/A" for a
\* null hash and a link otherwise.
C5_CommitCellNeverFails ==
    /\ pc = "aborted" => error.at # "REPO_URLS"
    /\ \A i \in Tables :
          DistinctLabels(readme[i].mapping) =>
              \A r \in 1..Len(RowNames(readme[i])) :
                  LET name == RowNames(readme[i])[r]
                      hash == FetchedRecord(name, readme[i].dataset).code_commit_hash
                      cell == DictGet(readme[i].cells[COMMIT_KEY], LabelOf(name))
                  IN IF hash = "None" THEN cell = "N/A"
                     ELSE /\ Find(cell, "[Link](") = 1
                          /\ Contains(cell, "/commit/" \o SubSeq(hash, 1, Min(7, Len(hash))))

\* The QoI helper is about to be called with nothing to pair.
QoICalledOnEmpty ==
    /\ pc = "fill_opt"
    /\ \/ Len(reference_eval.record.results) = 0
       \/ Len(optimized_eval.record.results) = 0

\* C7: called with empty input the QoI helper raises ZeroDivisionError and
\* returns no dictionary; in the run that ends cli() there and then: the
\* identifier is not skipped, no row is written and nothing is appended.
C7_EmptyInputIsFatal ==
    [][QoICalledOnEmpty =>
          /\ compute_quality_of_inference(reference_eval.record.results,
                                          optimized_eval.record.results).exc
                 = "ZeroDivisionError"
          /\ pc' = "aborted"
          /\ error' = [exc |-> "ZeroDivisionError", at |-> "compute_quality_of_inference"]
          /\ results_dict' = results_dict
          /\ readme' = readme
          /\ oi' = oi
          /\ io' = io]_vars

\* C7 witness: the run ended in the QoI helper on an optimized record without
\* examples, the reference record having some.
C7_Witness ==
    /\ pc = "aborted"
    /\ error = [exc |-> "ZeroDivisionError", at |-> "compute_quality_of_inference"]
    /\ Len(reference_eval.record.results) > 0
    /\ Len(optimized_eval.record.results) = 0

\* C9: publishing happens only with the upload flag and only once every
\* dataset and mapping has been processed; its steps are the write, the
\* dataset upload and the model upload, in this order, each attempted at most
\* once, and a failed step ends the run before the next.
C9_PublishOrder ==
    LET steps == <<"write", "upload_dataset", "upload_model">>
    IN /\ Len(io) <= 3
       /\ \A i \in 1..Len(io) : io[i].op = steps[i]
       /\ \A i \in 1..Len(io) : ~io[i].ok => (i = Len(io) /\ pc = "aborted")
       /\ io # <<>> =>
             /\ args.upload_results
             /\ di = Len(args.dataset_names) + 1
             /\ Cardinality(Tables) = Len(args.dataset_names) * Len(args.mappings)
       /\ pc \in {"write", "upload_dataset", "upload_model"} => args.upload_results
       /\ pc = "done" => (args.upload_results <=> Len(io) = 3)

\* C9 witness: a document with a table was written and uploaded to both
\* destinations.
C9_Witness ==
    /\ pc = "done"
    /\ Tables # {}
    /\ io = <<[op |-> "write", ok |-> TRUE], [op |-> "upload_dataset", ok |-> TRUE],
              [op |-> "upload_model", ok |-> TRUE]>>

\* What the contract says parse_name returns for an identifier with at most
\* one slash.
SpecifiedParse(name) ==
    LET i == Find(name, "/")
    IN IF i = 0 THEN [exc |-> "None", code_repo |-> "WhisperKit", model |-> name]
       ELSE [exc |-> "None", code_repo |-> SubSeq(name, 1, i - 1),
             model |-> SubSeq(name, i + 1, Len(name))]

ParsesAsSpecified(name) ==
    IF CountChar(name, "/") <= 1 THEN parse_name(name) = SpecifiedParse(name)
    ELSE parse_name(name).exc = "ValueError"

ParseNameAbort == [exc |-> "ValueError", at |-> "parse_name"]

C10_ParseStep ==
    /\ (pc = "mapping" /\ mi <= Len(args.mappings) /\ Len(MappingParts) = 2) =>
          /\ ParsesAsSpecified(Reference)
          /\ IF CountChar(Reference, "/") > 1
             THEN pc' = "aborted" /\ error' = ParseNameAbort
             ELSE pc' = "fetch_ref"
    /\ (pc = "optimized" /\ oi <= Len(OptimizedList)) =>
          /\ ParsesAsSpecified(Optimized)
          /\ IF CountChar(Optimized, "/") > 1
             THEN pc' = "aborted" /\ error' = ParseNameAbort /\ warnings' = warnings
                  /\ oi' = oi
             ELSE pc' = "fetch_opt"
    /\ pc = "fetch_ref" =>
          \E e \in store' :
              e.path = PathJoin(SpecifiedParse(Reference).code_repo,
                                SpecifiedParse(Reference).model, DatasetName)
    /\ pc = "fetch_opt" =>
          \E e \in store' :
              e.path = PathJoin(SpecifiedParse(Optimized).code_repo,
                                SpecifiedParse(Optimized).model, DatasetName)

\* C10: parse_name returns (default repository, identifier) without a slash,
\* (first segment, second segment) with one, and raises ValueError with more;
\* in the run the error ends cli() for a reference and for an optimized
\* identifier alike, and is not skipped as a fetch failure.
C10_ParseName == [][C10_ParseStep]_vars

\* C10 witness: the run ended in parse_name on an optimized identifier, after
\* the reference of the same mapping had been fetched.
C10_Witness ==
    /\ pc = "aborted"
    /\ error = ParseNameAbort
    /\ <<di, mi, 0>> \in fetched
    /\ CountChar(Optimized, "/") = 2

(***************************************************************************)
(* compute_quality_of_inference: sequences of different lengths.            *)
(***************************************************************************)
\* The number of pairs zip() forms from the two sequences of the call.
PairedLen == Min(Len(call.reference), Len(call.optimized))

\* Paired positions whose optimized metric is <= (resp. <) the reference metric.
NoRegressionPaired ==
    {i \in 1..PairedLen : call.optimized[i].wer <= call.reference[i].wer}

ImprovedPaired ==
    {i \in 1..PairedLen : call.optimized[i].wer < call.reference[i].wer}

\* The first m examples of a sequence.
Prefix(s, m) == SubSeq(s, 1, m)

\* C11: when the two sequences differ in length the helper raises no error
\* for the mismatch: it pairs positions 1..m, m the shorter length, ignores
\* every example past m (the result is that of the two prefixes of length m),
\* and divides by m; it fails exactly when m = 0, on any input.
C11_UnequalLengthsUseMin ==
    ret.done =>
        /\ (ret.out.exc # "None") <=> (PairedLen = 0)
        /\ Len(call.reference) # Len(call.optimized) =>
              /\ PairedLen = 0 => ret.out.exc = "ZeroDivisionError"
              /\ PairedLen > 0 =>
                    /\ NearestTenth(ret.out.no_regression,
                                    Cardinality(NoRegressionPaired), PairedLen)
                    /\ NearestTenth(ret.out.improved,
                                    Cardinality(ImprovedPaired), PairedLen)
              /\ compute_quality_of_inference(Prefix(call.reference, PairedLen),
                                              Prefix(call.optimized, PairedLen))
                    = ret.out

\* C11 witness: 7 reference examples against 3 optimized ones, 2 of the 3
\* pairs not regressing, and an unpaired reference example that would count
\* against any optimized metric: 66.7, neither 2 of 7 nor 3 of 7.
C11_Witness ==
    /\ ret.done
    /\ Len(call.reference) = 7
    /\ Len(call.optimized) = 3
    /\ Cardinality(NoRegressionPaired) = 2
    /\ \E i \in 4..7 : call.reference[i].wer = 0
    /\ ret.out.exc = "None"
    /\ ret.out.no_regression = 66700

====
